---- MODULE Spec2Model ----
(***************************************************************************)
(* Model of src/lib.rs: Observable<T>, a list of Weak<Mutex<dyn Observer>> *)
(* handles, with register / send_to / send_to_all, together with the       *)
(* owners of the observers (Arc handles, user-held lock guards) and the    *)
(* threads that call into the Observable.                                  *)
(*                                                                         *)
(* Slot indices are zero-based as in the source; subscribers[ob][k+1] is   *)
(* the slot with registration index k.                                     *)
(***************************************************************************)
EXTENDS Integers, Sequences, FiniteSets, TLC

\* ---- bound ----
MaxSlots == 2      \* registrations per Observable

\* Two threads share one Observable and two observers. Each thread makes one
\* call; two calls by one thread in a row behave as the calls of two threads
\* that do not overlap. MainThread is the thread whose user code also takes
\* lock guards itself, as the thread of test_observable does.
Threads     == {"t1", "t2"}
Observables == {"A"}
Observers   == {"o1", "o2"}
MainThread  == "t1"
NoObserver  == "none"

\* the message a thread sends names its call (Msg("1"), Msg("2") in the test);
\* send_to never inspects the message
Message(t) == IF t = MainThread THEN 1 ELSE 2

VARIABLES
    subscribers,  \* Observable -> sequence of weak handles (observer ids)
    owners,       \* observer -> number of Arc handles held by user code
    strong,       \* observer -> Arc strong count
    dropped,      \* observers whose value has been destroyed
    mutex,        \* observer -> TRUE iff its Mutex is locked
    poisoned,     \* observer -> TRUE iff its Mutex is poisoned
    counter,      \* observer -> field `counter`
    output,       \* observer -> field `output` (the message it was built from)
    guards,       \* thread -> observers whose MutexGuard its user code holds
    pc,           \* thread -> position inside send_to / send_to_all
    call,         \* thread -> arguments and locals of its current call
    events        \* thread -> what its current call has done so far

vars == <<subscribers, owners, strong, dropped, mutex, poisoned,
          counter, output, guards, pc, call, events>>

obsVars == <<counter, output>>
arcVars == <<owners, strong, dropped>>

NoCall == [kind |-> "none", ob |-> "A", message |-> 0, i |-> 0, n |-> 0,
           acc |-> 0, s |-> NoObserver, res |-> "-", waited |-> FALSE]

\* ---- helpers ----

\* Get indexing from the back of the list
Get_Reversed(subs, i) == IF i < Len(subs) THEN subs[Len(subs) - i] ELSE NoObserver

\* Get saturating at the last slot instead of reporting absence
Get_Clamped(subs, i) ==
    IF i < Len(subs) THEN subs[i + 1]
    ELSE IF Len(subs) > 0 THEN subs[Len(subs)] ELSE NoObserver

\* lookup that hands out each observer once: a later slot holding an observer
\* of an earlier slot is empty
Get_Dedup(subs, i) ==
    IF i < Len(subs) /\ \A j \in 1 .. i : subs[j] # subs[i + 1]
    THEN subs[i + 1] ELSE NoObserver

\* subscribers.get(i)
Get(subs, i) == IF i < Len(subs) THEN subs[i + 1] ELSE NoObserver

\* the temporary Arc produced by Weak::upgrade is alive at these positions
HoldsArc(t) == pc[t] \in {"lock", "err", "notify", "unlock", "drop"}

\* the MutexGuard produced by lock() is alive at these positions
HoldsGuard(t) == pc[t] \in {"err", "notify", "unlock"}

\* a call of thread t borrows Observable ob
InCall(t) == pc[t] \in {"get", "upgrade", "lock", "err", "notify", "unlock", "drop"}

\* dropping one strong handle of o: the value is destroyed with the last one
DropStrong(o) ==
    /\ strong' = [strong EXCEPT ![o] = @ - 1]
    /\ dropped' = IF strong[o] = 1 THEN dropped \cup {o} ELSE dropped

\* fold step that counts nothing
FoldAcc_NoCount(acc, res) == acc

\* fold step that counts every slot, delivered or not
FoldAcc_CountAll(acc, res) == acc + 1

\* fold step of send_to_all: Some(_) => acc+1, None => acc
FoldAcc(acc, res) == IF res = "Some" THEN acc + 1 ELSE acc

\* what follows the end of one send_to(message, i): the return of send_to, or
\* the next iteration of the fold over 0..len
AfterSlotCall(c, res) ==
    IF c.kind = "send_to"
    THEN [c EXCEPT !.res = res, !.s = NoObserver]
    ELSE [c EXCEPT !.res = res, !.s = NoObserver,
                   !.acc = FoldAcc(c.acc, res), !.i = c.i + 1]

\* a fold that stops at the first failed slot
AfterSlotPc_Abort(c, res) ==
    IF c.kind = "send_to" THEN "done"
    ELSE IF res = "Some" /\ c.i + 1 < c.n THEN "get" ELSE "done"

\* where the call goes after one send_to(message, i): send_to returns, the
\* fold goes on to slot i+1 whatever the result was, or the range is exhausted
AfterSlotPc(c, res) ==
    IF c.kind = "send_to" THEN "done"
    ELSE IF c.i + 1 < c.n THEN "get" ELSE "done"

\* one entry of the record of a call: what was done, on which slot and
\* observer, with which message
Ev(e, c) == [e |-> e, i |-> c.i, o |-> c.s, m |-> c.message]

\* observers with no owning handle left anywhere (user code or in-flight upgrade)
NoHandle == {o \in Observers :
                /\ owners[o] = 0
                /\ \A t \in Threads : ~(HoldsArc(t) /\ call[t].s = o)}

\* ---- initial state: Observable::new() for every Observable, and every
\* observer constructed with Arc::new(Mutex::new(Default::default())), its
\* owner holding one handle; nothing is registered ----
Init ==
    /\ subscribers = [ob \in Observables |-> << >>]
    /\ owners = [o \in Observers |-> 1]
    /\ strong = [o \in Observers |-> 1]
    /\ dropped = {}
    /\ mutex = [o \in Observers |-> FALSE]
    /\ poisoned = [o \in Observers |-> FALSE]
    /\ counter = [o \in Observers |-> 0]
    /\ output = [o \in Observers |-> 0]
    /\ guards = [t \in Threads |-> {}]
    /\ pc = [t \in Threads |-> "idle"]
    /\ call = [t \in Threads |-> NoCall]
    /\ events = [t \in Threads |-> << >>]

\* ---- user code: owning the observers ----

\* the owning handle goes out of scope; a guard borrows the handle it was
\* locked through, so the handle outlives every user guard
ArcDrop(o) ==
    /\ owners[o] >= 1
    /\ \A t \in Threads : o \notin guards[t]
    /\ owners' = [owners EXCEPT ![o] = @ - 1]
    /\ DropStrong(o)
    /\ UNCHANGED <<subscribers, mutex, poisoned, counter, output,
                   guards, pc, call, events>>

\* let lock1 = ob1.lock();  (blocks while the mutex is held)
UserLock(t, o) ==
    /\ t = MainThread
    /\ pc[t] = "idle"
    /\ owners[o] >= 1
    /\ ~mutex[o]
    /\ mutex' = [mutex EXCEPT ![o] = TRUE]
    /\ guards' = [guards EXCEPT ![t] = @ \cup {o}]
    /\ UNCHANGED <<subscribers, arcVars, poisoned, obsVars, pc, call, events>>

\* end of the block that holds lock1
UserUnlock(t, o) ==
    /\ pc[t] \in {"idle", "done"}
    /\ o \in guards[t]
    /\ mutex' = [mutex EXCEPT ![o] = FALSE]
    /\ guards' = [guards EXCEPT ![t] = @ \ {o}]
    /\ UNCHANGED <<subscribers, arcVars, poisoned, obsVars, pc, call, events>>

\* ---- Observable ----

\* register keeping an owning handle (Arc) instead of the weak one
register_Strong(ob, o) ==
    /\ Len(subscribers[ob]) < MaxSlots
    /\ \A t \in Threads : ~(InCall(t) /\ call[t].ob = ob)
    /\ subscribers' = [subscribers EXCEPT ![ob] = Append(@, o)]
    /\ strong' = [strong EXCEPT ![o] = @ + 1]
    /\ UNCHANGED <<owners, dropped, mutex, poisoned, obsVars, guards, pc, call,
                   events>>

\* register inserting at the front
register_Front(ob, o) ==
    /\ Len(subscribers[ob]) < MaxSlots
    /\ \A t \in Threads : ~(InCall(t) /\ call[t].ob = ob)
    /\ subscribers' = [subscribers EXCEPT ![ob] = <<o>> \o @]
    /\ UNCHANGED <<arcVars, mutex, poisoned, obsVars, guards, pc, call,
                   events>>

\* register(&mut self, observer): push; &mut self excludes calls in progress
register(ob, o) ==
    /\ Len(subscribers[ob]) < MaxSlots
    /\ \A t \in Threads : ~(InCall(t) /\ call[t].ob = ob)
    /\ subscribers' = [subscribers EXCEPT ![ob] = Append(@, o)]
    /\ UNCHANGED <<arcVars, mutex, poisoned, obsVars, guards, pc, call,
                   events>>

\* entry of send_to_all(&self, message): the range 0..len is fixed here
send_to_all(t, ob) ==
    /\ pc[t] = "idle"
    /\ call' = [call EXCEPT ![t] =
                   [kind |-> "send_to_all", ob |-> ob, message |-> Message(t), i |-> 0,
                    n |-> Len(subscribers[ob]), acc |-> 0, s |-> NoObserver,
                    res |-> "-", waited |-> FALSE]]
    /\ pc' = [pc EXCEPT ![t] = IF Len(subscribers[ob]) = 0 THEN "done" ELSE "get"]
    /\ events' = [events EXCEPT ![t] = << >>]
    /\ UNCHANGED <<subscribers, arcVars, mutex, poisoned, obsVars, guards>>

\* entry of send_to(&self, message, i)
send_to(t, ob, i) ==
    /\ pc[t] = "idle"
    /\ call' = [call EXCEPT ![t] =
                   [kind |-> "send_to", ob |-> ob, message |-> Message(t), i |-> i,
                    n |-> Len(subscribers[ob]), acc |-> 0, s |-> NoObserver,
                    res |-> "-", waited |-> FALSE]]
    /\ pc' = [pc EXCEPT ![t] = "get"]
    /\ events' = [events EXCEPT ![t] = << >>]
    /\ UNCHANGED <<subscribers, arcVars, mutex, poisoned, obsVars, guards>>

\* self.subscribers.get(i)
SlotGet(t) ==
    /\ pc[t] = "get"
    /\ LET c == call[t]
           s == Get(subscribers[c.ob], c.i)
       IN  /\ events' = [events EXCEPT ![t] = Append(@, Ev("get", [c EXCEPT !.s = s]))]
           /\ IF s = NoObserver
              THEN /\ call' = [call EXCEPT ![t] = AfterSlotCall(c, "None")]
                   /\ pc' = [pc EXCEPT ![t] = AfterSlotPc(c, "None")]
              ELSE /\ call' = [call EXCEPT ![t].s = s]
                   /\ pc' = [pc EXCEPT ![t] = "upgrade"]
    /\ UNCHANGED <<subscribers, arcVars, mutex, poisoned, obsVars, guards>>

\* upgrade that hands out a handle without looking at the strong count
Upgrade_NoCheck(t) ==
    /\ pc[t] = "upgrade"
    /\ strong' = [strong EXCEPT ![call[t].s] = @ + 1]
    /\ pc' = [pc EXCEPT ![t] = "lock"]
    /\ UNCHANGED <<subscribers, owners, dropped, mutex, poisoned, obsVars,
                   guards, call, events>>

\* upgrade that checks the strong count but borrows the observer instead of
\* taking a handle of its own
Upgrade_Borrow(t) ==
    /\ pc[t] = "upgrade"
    /\ LET c == call[t]
       IN  IF strong[c.s] = 0
           THEN /\ call' = [call EXCEPT ![t] = AfterSlotCall(c, "None")]
                /\ pc' = [pc EXCEPT ![t] = AfterSlotPc(c, "None")]
           ELSE /\ pc' = [pc EXCEPT ![t] = "lock"]
                /\ UNCHANGED call
    /\ UNCHANGED <<subscribers, owners, strong, dropped, mutex, poisoned,
                   obsVars, guards, events>>

\* s.upgrade(): None once the strong count is zero, else one more strong handle
Upgrade(t) ==
    /\ pc[t] = "upgrade"
    /\ LET c == call[t]
       IN  IF strong[c.s] = 0
           THEN /\ call' = [call EXCEPT ![t] = AfterSlotCall(c, "None")]
                /\ pc' = [pc EXCEPT ![t] = AfterSlotPc(c, "None")]
                /\ UNCHANGED strong
           ELSE /\ strong' = [strong EXCEPT ![c.s] = @ + 1]
                /\ pc' = [pc EXCEPT ![t] = "lock"]
                /\ UNCHANGED call
    /\ UNCHANGED <<subscribers, owners, dropped, mutex, poisoned,
                   obsVars, guards, events>>

\* lock that does not wait for the mutex to be free
Lock_NoWait(t) ==
    /\ pc[t] = "lock"
    /\ mutex' = [mutex EXCEPT ![call[t].s] = TRUE]
    /\ pc' = [pc EXCEPT ![t] = IF poisoned[call[t].s] THEN "err" ELSE "notify"]
    /\ events' = [events EXCEPT ![t] = Append(@, Ev("lock", call[t]))]
    /\ UNCHANGED <<subscribers, arcVars, poisoned, obsVars, guards, call>>

\* lock that recovers the guard from a PoisonError and goes on to notify
Lock_IgnorePoison(t) ==
    /\ pc[t] = "lock"
    /\ ~mutex[call[t].s]
    /\ mutex' = [mutex EXCEPT ![call[t].s] = TRUE]
    /\ pc' = [pc EXCEPT ![t] = "notify"]
    /\ events' = [events EXCEPT ![t] = Append(@, Ev("lock", call[t]))]
    /\ UNCHANGED <<subscribers, arcVars, poisoned, obsVars, guards, call>>

\* try_lock in place of lock: a held mutex is a failure of the slot
Lock_Try(t) ==
    /\ pc[t] = "lock"
    /\ IF mutex[call[t].s]
       THEN /\ call' = [call EXCEPT ![t].res = "None", ![t].waited = FALSE]
            /\ pc' = [pc EXCEPT ![t] = "drop"]
            /\ UNCHANGED <<mutex, events>>
       ELSE /\ mutex' = [mutex EXCEPT ![call[t].s] = TRUE]
            /\ pc' = [pc EXCEPT ![t] = IF poisoned[call[t].s] THEN "err" ELSE "notify"]
            /\ call' = [call EXCEPT ![t].waited = FALSE]
            /\ events' = [events EXCEPT ![t] = Append(@, Ev("lock", call[t]))]
    /\ UNCHANGED <<subscribers, arcVars, poisoned, obsVars, guards>>

\* s.lock(): blocks until the mutex is free; the guard is handed over inside
\* Ok, or inside Err(PoisonError) when the mutex is poisoned
Lock(t) ==
    /\ pc[t] = "lock"
    /\ ~mutex[call[t].s]
    /\ mutex' = [mutex EXCEPT ![call[t].s] = TRUE]
    /\ pc' = [pc EXCEPT ![t] = IF poisoned[call[t].s] THEN "err" ELSE "notify"]
    /\ call' = [call EXCEPT ![t].waited = FALSE]
    /\ events' = [events EXCEPT ![t] = Append(@, Ev("lock", call[t]))]
    /\ UNCHANGED <<subscribers, arcVars, poisoned, obsVars, guards>>

\* s.lock() finds the mutex held: the thread is parked inside lock() until the
\* holder releases it
LockWait(t) ==
    /\ pc[t] = "lock"
    /\ mutex[call[t].s]
    /\ ~call[t].waited
    /\ call' = [call EXCEPT ![t].waited = TRUE]
    /\ UNCHANGED <<subscribers, arcVars, mutex, poisoned, obsVars, guards, pc,
                   events>>

\* s.lock() on a mutex this thread's own user code holds: std leaves it
\* unspecified (panic or deadlock); this is the panic, blocking is no step
LockSelf(t) ==
    /\ pc[t] = "lock"
    /\ call[t].s \in guards[t]
    /\ pc' = [pc EXCEPT ![t] = "panicked"]
    /\ mutex' = [o \in Observers |-> IF o \in guards[t] THEN FALSE ELSE mutex[o]]
    /\ poisoned' = [o \in Observers |-> IF o \in guards[t] THEN TRUE ELSE poisoned[o]]
    /\ guards' = [guards EXCEPT ![t] = {}]
    /\ DropStrong(call[t].s)
    /\ call' = [call EXCEPT ![t].waited = FALSE]
    /\ UNCHANGED <<subscribers, owners, obsVars, events>>

\* the guard inside the PoisonError is kept instead of dropped
LockErr_Leak(t) ==
    /\ pc[t] = "err"
    /\ call' = [call EXCEPT ![t].res = "None"]
    /\ pc' = [pc EXCEPT ![t] = "drop"]
    /\ UNCHANGED <<subscribers, arcVars, mutex, poisoned, obsVars, guards,
                   events>>

\* .ok() on Err(PoisonError): the error and the guard in it are dropped
LockErr(t) ==
    /\ pc[t] = "err"
    /\ mutex' = [mutex EXCEPT ![call[t].s] = FALSE]
    /\ call' = [call EXCEPT ![t].res = "None"]
    /\ pc' = [pc EXCEPT ![t] = "drop"]
    /\ events' = [events EXCEPT ![t] = Append(@, Ev("unlock", call[t]))]
    /\ UNCHANGED <<subscribers, arcVars, poisoned, obsVars, guards>>

\* the increment is computed from a count kept by the caller, not from the
\* value read under the lock
Notify_Lost(t) ==
    /\ pc[t] = "notify"
    /\ counter' = [counter EXCEPT ![call[t].s] = call[t].acc + 1]
    /\ output' = [output EXCEPT ![call[t].s] = call[t].message]
    /\ call' = [call EXCEPT ![t].res = "Some"]
    /\ pc' = [pc EXCEPT ![t] = "unlock"]
    /\ events' = [events EXCEPT ![t] = Append(@, Ev("notify", call[t]))]
    /\ UNCHANGED <<subscribers, arcVars, mutex, poisoned, guards>>

\* s.notify(message), with the observers of the tests: counter += 1 and
\* output built from the message
Notify(t) ==
    /\ pc[t] = "notify"
    /\ counter' = [counter EXCEPT ![call[t].s] = @ + 1]
    /\ output' = [output EXCEPT ![call[t].s] = call[t].message]
    /\ call' = [call EXCEPT ![t].res = "Some"]
    /\ pc' = [pc EXCEPT ![t] = "unlock"]
    /\ events' = [events EXCEPT ![t] = Append(@, Ev("notify", call[t]))]
    /\ UNCHANGED <<subscribers, arcVars, mutex, poisoned, guards>>

\* a mutex without poisoning: unwinding releases the guards and leaves no mark
NotifyPanic_NoPoison(t) ==
    /\ pc[t] = "notify"
    /\ LET held == guards[t] \cup {call[t].s}
       IN  mutex' = [o \in Observers |-> IF o \in held THEN FALSE ELSE mutex[o]]
    /\ guards' = [guards EXCEPT ![t] = {}]
    /\ DropStrong(call[t].s)
    /\ pc' = [pc EXCEPT ![t] = "panicked"]
    /\ UNCHANGED <<subscribers, owners, poisoned, obsVars, call, events>>

\* notify panics: unwinding drops the guard (poisoning the mutex), every guard
\* the thread's user code holds, and the upgraded Arc
NotifyPanic(t) ==
    /\ pc[t] = "notify"
    /\ LET held == guards[t] \cup {call[t].s}
       IN  /\ mutex' = [o \in Observers |-> IF o \in held THEN FALSE ELSE mutex[o]]
           /\ poisoned' = [o \in Observers |-> IF o \in held THEN TRUE ELSE poisoned[o]]
    /\ guards' = [guards EXCEPT ![t] = {}]
    /\ DropStrong(call[t].s)
    /\ pc' = [pc EXCEPT ![t] = "panicked"]
    /\ UNCHANGED <<subscribers, owners, obsVars, call, events>>

\* the guard outlives the slot: it is not released before the next attempt
Unlock_Leak(t) ==
    /\ pc[t] = "unlock"
    /\ pc' = [pc EXCEPT ![t] = "drop"]
    /\ UNCHANGED <<subscribers, arcVars, mutex, poisoned, obsVars, guards,
                   call, events>>

\* the guard temporary is dropped when notify has returned
Unlock(t) ==
    /\ pc[t] = "unlock"
    /\ mutex' = [mutex EXCEPT ![call[t].s] = FALSE]
    /\ pc' = [pc EXCEPT ![t] = "drop"]
    /\ events' = [events EXCEPT ![t] = Append(@, Ev("unlock", call[t]))]
    /\ UNCHANGED <<subscribers, arcVars, poisoned, obsVars, guards, call>>

\* the upgraded Arc (closure parameter s) is dropped; send_to returns
DropArc(t) ==
    /\ pc[t] = "drop"
    /\ DropStrong(call[t].s)
    /\ call' = [call EXCEPT ![t] = AfterSlotCall(call[t], call[t].res)]
    /\ pc' = [pc EXCEPT ![t] = AfterSlotPc(call[t], call[t].res)]
    /\ UNCHANGED <<subscribers, owners, mutex, poisoned, obsVars,
                   guards, events>>

Next ==
    \/ \E o \in Observers : ArcDrop(o)
    \/ \E t \in Threads, o \in Observers : UserLock(t, o)
    \/ \E t \in Threads, o \in Observers : UserUnlock(t, o)
    \/ \E ob \in Observables, o \in Observers : register(ob, o)
    \/ \E t \in Threads, ob \in Observables : send_to_all(t, ob)
    \/ \E t \in Threads, ob \in Observables, i \in 0..MaxSlots :
          send_to(t, ob, i)
    \/ \E t \in Threads : SlotGet(t)
    \/ \E t \in Threads : Upgrade(t)
    \/ \E t \in Threads : Lock(t)
    \/ \E t \in Threads : LockWait(t)
    \/ \E t \in Threads : LockSelf(t)
    \/ \E t \in Threads : LockErr(t)
    \/ \E t \in Threads : Notify(t)
    \/ \E t \in Threads : NotifyPanic(t)
    \/ \E t \in Threads : Unlock(t)
    \/ \E t \in Threads : DropArc(t)

Spec == Init /\ [][Next]_vars

\* every thread that can take a step of its call eventually takes it: the
\* steps of send_to run straight through, notify returns or panics, and a
\* thread inside lock() gets a mutex that stays free. Nothing is assumed of
\* user code (handles, user guards) or of the outcome of locking a mutex the
\* thread already holds.
CallStep(t) ==
    \/ SlotGet(t)
    \/ Upgrade(t)
    \/ Lock(t)
    \/ LockErr(t)
    \/ Notify(t)
    \/ Unlock(t)
    \/ DropArc(t)

Fairness == \A t \in Threads : WF_vars(CallStep(t))

\* the threads broadcast: every call is a send_to_all
NextFair ==
    \/ \E o \in Observers : ArcDrop(o)
    \/ \E t \in Threads, o \in Observers : UserLock(t, o)
    \/ \E t \in Threads, o \in Observers : UserUnlock(t, o)
    \/ \E ob \in Observables, o \in Observers : register(ob, o)
    \/ \E t \in Threads, ob \in Observables : send_to_all(t, ob)
    \/ \E t \in Threads : SlotGet(t)
    \/ \E t \in Threads : Upgrade(t)
    \/ \E t \in Threads : Lock(t)
    \/ \E t \in Threads : LockWait(t)
    \/ \E t \in Threads : LockSelf(t)
    \/ \E t \in Threads : LockErr(t)
    \/ \E t \in Threads : Notify(t)
    \/ \E t \in Threads : NotifyPanic(t)
    \/ \E t \in Threads : Unlock(t)
    \/ \E t \in Threads : DropArc(t)

SpecFair == Init /\ [][NextFair]_vars /\ Fairness

\* ---- one observer shared by two Observables ----

TwoObservables == {"A", "B"}

InitTwo ==
    /\ subscribers = [ob \in TwoObservables |-> << >>]
    /\ owners = [o \in Observers |-> 1]
    /\ strong = [o \in Observers |-> 1]
    /\ dropped = {}
    /\ mutex = [o \in Observers |-> FALSE]
    /\ poisoned = [o \in Observers |-> FALSE]
    /\ counter = [o \in Observers |-> 0]
    /\ output = [o \in Observers |-> 0]
    /\ guards = [t \in Threads |-> {}]
    /\ pc = [t \in Threads |-> "idle"]
    /\ call = [t \in Threads |-> NoCall]
    /\ events = [t \in Threads |-> << >>]

\* the owner keeps its handles and takes no lock of its own; every thread may
\* send on either Observable
NextTwo ==
    \/ \E ob \in TwoObservables, o \in Observers : register(ob, o)
    \/ \E t \in Threads, ob \in TwoObservables : send_to_all(t, ob)
    \/ \E t \in Threads : SlotGet(t)
    \/ \E t \in Threads : Upgrade(t)
    \/ \E t \in Threads : Lock(t)
    \/ \E t \in Threads : LockWait(t)
    \/ \E t \in Threads : Notify(t)
    \/ \E t \in Threads : Unlock(t)
    \/ \E t \in Threads : DropArc(t)

SpecTwo == InitTwo /\ [][NextTwo]_vars

\* ---- observers created while the Observable is in use ----

\* the observer has not been created yet
Unborn(o) == strong[o] = 0 /\ o \notin dropped

\* an allocation that takes over the identity of a destroyed observer
ArcNew_Reuse(o) ==
    /\ strong[o] = 0
    /\ \A t \in Threads : ~(InCall(t) /\ call[t].s = o)
    /\ owners' = [owners EXCEPT ![o] = 1]
    /\ strong' = [strong EXCEPT ![o] = 1]
    /\ dropped' = dropped \ {o}
    /\ UNCHANGED <<subscribers, mutex, poisoned, counter, output, guards, pc,
                   call, events>>

\* Arc::new(Mutex::new(..)): a new observer; the allocation of a destroyed one
\* is kept by the Weak registered for it, so the new observer is none of the
\* destroyed ones
ArcNew(o) ==
    /\ Unborn(o)
    /\ owners' = [owners EXCEPT ![o] = 1]
    /\ strong' = [strong EXCEPT ![o] = 1]
    /\ UNCHANGED <<subscribers, dropped, mutex, poisoned, counter, output,
                   guards, pc, call, events>>

InitNew ==
    /\ subscribers = [ob \in Observables |-> << >>]
    /\ owners = [o \in Observers |-> IF o = "o1" THEN 1 ELSE 0]
    /\ strong = [o \in Observers |-> IF o = "o1" THEN 1 ELSE 0]
    /\ dropped = {}
    /\ mutex = [o \in Observers |-> FALSE]
    /\ poisoned = [o \in Observers |-> FALSE]
    /\ counter = [o \in Observers |-> 0]
    /\ output = [o \in Observers |-> 0]
    /\ guards = [t \in Threads |-> {}]
    /\ pc = [t \in Threads |-> "idle"]
    /\ call = [t \in Threads |-> NoCall]
    /\ events = [t \in Threads |-> << >>]

\* only an observer that has been created has a Weak to register
NextNew ==
    \/ \E o \in Observers : ArcNew(o)
    \/ \E o \in Observers : ArcDrop(o)
    \/ \E ob \in Observables, o \in Observers : ~Unborn(o) /\ register(ob, o)
    \/ \E t \in Threads, ob \in Observables : send_to_all(t, ob)
    \/ \E t \in Threads, ob \in Observables, i \in 0..MaxSlots :
          send_to(t, ob, i)
    \/ \E t \in Threads : SlotGet(t)
    \/ \E t \in Threads : Upgrade(t)
    \/ \E t \in Threads : Lock(t)
    \/ \E t \in Threads : LockWait(t)
    \/ \E t \in Threads : Notify(t)
    \/ \E t \in Threads : Unlock(t)
    \/ \E t \in Threads : DropArc(t)

SpecNew == InitNew /\ [][NextNew]_vars

\* ---- reading a call's record ----

IsNotify(ev) == ev.e = "notify"
IsGet(ev) == ev.e = "get"
NotifyEvents(t) == SelectSeq(events[t], IsNotify)
GetEvents(t) == SelectSeq(events[t], IsGet)

\* the slots the call of t ranges over, and the observer registered at slot k
Slots(t) == 0 .. (call[t].n - 1)
Sub(t, k) == subscribers[call[t].ob][k + 1]

Returned(t, kind) == pc[t] = "done" /\ call[t].kind = kind

\* the observer is owned by user code and its mutex is not poisoned
Deliverable(o) == owners[o] >= 1 /\ ~poisoned[o]

DistinctSlots(t) == \A j, k \in Slots(t) : j # k => Sub(t, j) # Sub(t, k)

NotifyOf(t, k) == [e |-> "notify", i |-> k, o |-> Sub(t, k), m |-> call[t].message]

\* C1: a send_to_all over N distinct observers that are alive and unpoisoned
\* returns N and has called notify exactly once on each, in slot order, with
\* the message of the call; over zero registrations it returns 0.
C1_FanOutCount ==
    \A t \in Threads :
        (/\ Returned(t, "send_to_all")
         /\ DistinctSlots(t)
         /\ \A k \in Slots(t) : Deliverable(Sub(t, k)))
        => /\ call[t].acc = call[t].n
           /\ NotifyEvents(t) = [p \in 1 .. call[t].n |-> NotifyOf(t, p - 1)]
           /\ \A k \in Slots(t) : counter[Sub(t, k)] >= 1

C1_Witness ==
    \E t \in Threads :
        /\ Returned(t, "send_to_all")
        /\ call[t].n >= 2
        /\ DistinctSlots(t)
        /\ \A k \in Slots(t) : Deliverable(Sub(t, k))
        /\ call[t].acc = call[t].n

\* C2: the upgrade of a slot whose observer has no owning handle left fails
\* on the spot: send_to returns failure, the fold does not count the slot, no
\* lock is taken, no notify is called and the call does not panic; a call is
\* never past upgrade on a destroyed observer, and a returned send_to_all has
\* not counted the slots of destroyed, never notified observers.
C2_Step ==
    \A t \in Threads :
        (/\ pc[t] = "upgrade"
         /\ call[t].s \in NoHandle
         /\ pc'[t] # pc[t])
        => /\ call'[t].res = "None"
           /\ call'[t].acc = call[t].acc
           /\ pc'[t] = (IF call[t].kind = "send_to_all" /\ call[t].i + 1 < call[t].n
                        THEN "get" ELSE "done")
           /\ UNCHANGED <<subscribers, owners, strong, dropped, mutex, poisoned,
                          counter, output, guards, events>>

C2_Record ==
    \A t \in Threads :
        /\ HoldsArc(t) => call[t].s \notin dropped
        /\ Returned(t, "send_to_all")
           => call[t].acc <= Cardinality({k \in Slots(t) :
                  ~(Sub(t, k) \in dropped /\ counter[Sub(t, k)] = 0)})
        /\ (Returned(t, "send_to") /\ call[t].i < call[t].n
               /\ Sub(t, call[t].i) \in dropped /\ counter[Sub(t, call[t].i)] = 0)
           => call[t].res = "None"

C2_DeadSkipped == []C2_Record /\ [][C2_Step]_vars

C2_Witness ==
    \E t \in Threads :
        /\ Returned(t, "send_to_all")
        /\ call[t].n = 1
        /\ Sub(t, 0) \in dropped
        /\ counter[Sub(t, 0)] = 0
        /\ call[t].acc = 0

\* C3: a step of a send_to(m, i) call changes the state of no observer other
\* than the one registered at index i, and a successful call has called
\* notify exactly once, on that observer.
C3_Frame ==
    \A t \in Threads :
        (call[t].kind = "send_to" /\ pc'[t] # pc[t])
        => \A o \in Observers :
              (call[t].i >= Len(subscribers[call[t].ob])
                  \/ o # subscribers[call[t].ob][call[t].i + 1])
              => counter'[o] = counter[o] /\ output'[o] = output[o]

C3_Once ==
    \A t \in Threads :
        (Returned(t, "send_to") /\ call[t].res = "Some")
        => NotifyEvents(t) = << NotifyOf(t, call[t].i) >>

C3_TargetedDelivery == []C3_Once /\ [][C3_Frame]_vars

C3_Witness ==
    \E t \in Threads :
        /\ Returned(t, "send_to")
        /\ call[t].res = "Some"
        /\ call[t].i = 1
        /\ Sub(t, 0) # Sub(t, 1)
        /\ counter[Sub(t, 0)] = 0

\* C4: the step of send_to that finds the index out of range returns failure
\* at once: no upgrade, no lock, no notify, no panic, subscribers and observers
\* untouched.
C4_Step ==
    \A t \in Threads :
        (/\ pc[t] = "get"
         /\ call[t].i >= Len(subscribers[call[t].ob])
         /\ pc'[t] # pc[t])
        => /\ pc'[t] = "done"
           /\ call'[t].res = "None"
           /\ UNCHANGED <<subscribers, owners, strong, dropped, mutex, poisoned,
                          counter, output, guards>>

C4_Record ==
    \A t \in Threads :
        (Returned(t, "send_to") /\ call[t].i >= call[t].n)
        => /\ call[t].res = "None"
           /\ \A p \in 1 .. Len(events[t]) : events[t][p].e = "get"

C4_OutOfRange == []C4_Record /\ [][C4_Step]_vars

C4_Witness ==
    \E t \in Threads :
        /\ Returned(t, "send_to")
        /\ call[t].n >= 1
        /\ call[t].i >= call[t].n
        /\ call[t].res = "None"

\* C5: the record of a call is a sequence of slot attempts with increasing
\* index; a lock is taken only right after the attempt of its slot, notify only
\* under that lock, and the next attempt begins only after the lock has been
\* released, so a call never holds two locks.
SameSlot(a, b) == a.i = b.i /\ a.o = b.o

C5_Sequential ==
    \A t \in Threads :
        \A p \in 1 .. Len(events[t]) :
            LET ev == events[t]
                gets == Cardinality({q \in 1 .. (p - 1) : ev[q].e = "get"})
            IN  /\ ev[p].e = "get"
                   => /\ call[t].kind = "send_to_all" => ev[p].i = gets
                      /\ p > 1 => ev[p - 1].e \in {"get", "unlock"}
                /\ ev[p].e = "lock"
                   => p > 1 /\ ev[p - 1].e = "get" /\ SameSlot(ev[p - 1], ev[p])
                /\ ev[p].e = "notify"
                   => p > 1 /\ ev[p - 1].e = "lock" /\ SameSlot(ev[p - 1], ev[p])
                /\ ev[p].e = "unlock"
                   => p > 1 /\ ev[p - 1].e \in {"lock", "notify"}
                            /\ SameSlot(ev[p - 1], ev[p])

C5_Witness ==
    \E t \in Threads :
        /\ Returned(t, "send_to_all")
        /\ Len(NotifyEvents(t)) >= 2
        /\ NotifyEvents(t)[1].i < NotifyEvents(t)[2].i

\* C6: a returned send_to_all has attempted every slot 0..n-1 whatever failed
\* on the way, has notified every slot whose observer is alive and unpoisoned,
\* and returns the number of notifications it made.
C6_NoAbort ==
    \A t \in Threads :
        Returned(t, "send_to_all")
        => /\ Len(GetEvents(t)) = call[t].n
           /\ \A p \in 1 .. call[t].n : GetEvents(t)[p].i = p - 1
           /\ \A k \in Slots(t) :
                 Deliverable(Sub(t, k))
                 => \E p \in 1 .. Len(events[t]) : events[t][p] = NotifyOf(t, k)
           /\ call[t].acc = Len(NotifyEvents(t))

C6_Witness ==
    \E t \in Threads :
        /\ Returned(t, "send_to_all")
        /\ call[t].n >= 2
        /\ poisoned[Sub(t, 0)]
        /\ \A p \in 1 .. Len(events[t]) : events[t][p] # NotifyOf(t, 0)
        /\ \E p \in 1 .. Len(events[t]) : events[t][p] = NotifyOf(t, 1)
        /\ call[t].acc = 1

\* C7: an observer has at most one party inside its lock: a thread whose call
\* is between lock and unlock on it, or a thread whose user code holds its
\* guard.
Inside(o) == {t \in Threads : HoldsGuard(t) /\ call[t].s = o}
UserInside(o) == {t \in Threads : o \in guards[t]}

C7_MutualExclusion ==
    \A o \in Observers :
        /\ Cardinality(Inside(o)) + Cardinality(UserInside(o)) <= 1
        /\ Inside(o) \cup UserInside(o) # {} => mutex[o]

C7_Witness ==
    \E t, u \in Threads :
        /\ t # u
        /\ pc[t] = "notify"
        /\ pc[u] = "lock"
        /\ call[t].s = call[u].s

\* C8: a locked mutex always has a present holder: a call that is between
\* lock and unlock on it, or a guard in user code. When no call is in
\* progress every locked mutex is therefore held by user code, and a call that
\* has returned has left the locks it took free for others.
C8_TransientLock ==
    \A o \in Observers :
        mutex[o] => Inside(o) \cup UserInside(o) # {}

C8_Witness ==
    \E t \in Threads :
        /\ Returned(t, "send_to")
        /\ \E p \in 1 .. Len(events[t]) : events[t][p].e = "lock"
        /\ call[t].res = "None"
        /\ \A u \in Threads : ~InCall(u)
        /\ \A o \in Observers : ~mutex[o]

\* C9 as stated: an observer with no owning holder outside the Observable is
\* destroyed, in every state.
C9_Original ==
    \A o \in Observers : owners[o] = 0 => o \in dropped

\* C9 amended: an observer with no owning holder outside the Observable is
\* destroyed unless a delivery to it is in progress; registration alone never
\* keeps it alive, and the delivery's handle is the only other strong handle.
Delivering(o) == {t \in Threads : HoldsArc(t) /\ call[t].s = o}

C9_NoLifetimeExtension ==
    \A o \in Observers :
        /\ (owners[o] = 0 /\ Delivering(o) = {}) => o \in dropped
        /\ strong[o] = owners[o] + Cardinality(Delivering(o))
        /\ o \in dropped <=> strong[o] = 0

C9_Witness ==
    \E o \in Observers :
        /\ o \in dropped
        /\ \E k \in 1 .. Len(subscribers["A"]) : subscribers["A"][k] = o
        /\ \E t \in Threads :
              /\ pc[t] = "done"
              /\ \E p \in 1 .. Len(events[t]) : events[t][p].e = "notify" /\ events[t][p].o = o

\* C10: the subscriber sequence starts empty; every change of it is one
\* register appending one slot at the end, made by no call; register is
\* possible for every observer, dead or already registered.
C10_Empty == \A ob \in Observables : subscribers[ob] = << >>

C10_Step ==
    \A ob \in Observables :
        subscribers'[ob] # subscribers[ob]
        => /\ \E o \in Observers : subscribers'[ob] = Append(subscribers[ob], o)
           /\ \A k \in 1 .. Len(subscribers[ob]) : subscribers'[ob][k] = subscribers[ob][k]
           /\ UNCHANGED <<pc, call, events, owners, strong, dropped, mutex,
                          poisoned, counter, output, guards>>

C10_Accepts ==
    \A ob \in Observables, o \in Observers :
        (/\ Len(subscribers[ob]) < MaxSlots
         /\ \A t \in Threads : ~(InCall(t) /\ call[t].ob = ob))
        => ENABLED register(ob, o)

C10_AppendOnly == C10_Empty /\ []C10_Accepts /\ [][C10_Step]_vars

C10_Witness ==
    /\ Len(subscribers["A"]) >= 2
    /\ subscribers["A"][1] = subscribers["A"][2]
    /\ subscribers["A"][1] \in dropped
    /\ \E t \in Threads : Returned(t, "send_to_all") /\ call[t].n = 1

\* C11: on a live observer whose mutex is poisoned, the slot ends as a
\* failure: the lock step leads to the error branch, which releases the lock
\* and leaves counter and output alone; notify is never running on a poisoned
\* observer, send_to returns None and send_to_all does not count the slot.
C11_Step ==
    \A t \in Threads :
        /\ (pc[t] = "lock" /\ poisoned[call[t].s] /\ pc'[t] \notin {"lock", "panicked"})
           => pc'[t] = "err"
        /\ (pc[t] = "err" /\ pc'[t] # "err")
           => /\ pc'[t] = "drop"
              /\ call'[t].res = "None"
              /\ ~mutex'[call[t].s]
              /\ UNCHANGED <<counter, output, poisoned, subscribers>>
        /\ (pc[t] = "drop" /\ call[t].res = "None" /\ pc'[t] # "drop")
           => /\ call'[t].res = "None"
              /\ call'[t].acc = call[t].acc
              /\ pc'[t] \in {"get", "done"}

C11_Record ==
    \A t \in Threads :
        /\ pc[t] \in {"notify", "unlock"} => ~poisoned[call[t].s]
        /\ pc[t] = "err" => poisoned[call[t].s] /\ call[t].s \notin dropped

C11_PoisonedSkipped == []C11_Record /\ [][C11_Step]_vars

C11_Witness ==
    \E t \in Threads :
        /\ Returned(t, "send_to")
        /\ call[t].res = "None"
        /\ call[t].i < call[t].n
        /\ poisoned[Sub(t, call[t].i)]
        /\ owners[Sub(t, call[t].i)] >= 1
        /\ \E p \in 1 .. Len(events[t]) : events[t][p].e = "lock"
        /\ NotifyEvents(t) = << >>

\* C12 as stated: a slot whose lock send_to found held by another party is
\* given up like a dead one: the thread's next step ends the slot as a failure.
C12_Original ==
    [][\A t \in Threads :
          (pc[t] = "lock" /\ call[t].waited /\ call[t].s \notin guards[t]
              /\ pc'[t] # pc[t])
          => pc'[t] \in {"get", "done"} /\ call'[t].res = "None"]_vars

\* C12 amended: there is no retry, but send_to does wait: a thread that found
\* the lock held stays inside lock() while it is held; the only way on from
\* lock() is having acquired the mutex (or the panic on a self-held one), and
\* then the observer is notified unless the mutex is poisoned. Each slot is
\* locked at most once.
C12_Step ==
    \A t \in Threads :
        (pc[t] = "lock" /\ pc'[t] # pc[t])
        => /\ pc'[t] \in {"notify", "err", "panicked"}
           /\ pc'[t] \in {"notify", "err"}
              => /\ ~mutex[call[t].s] /\ mutex'[call[t].s]
                 /\ (pc'[t] = "notify") = ~poisoned[call[t].s]

LockEvents(t, k) == {p \in 1 .. Len(events[t]) : events[t][p].e = "lock" /\ events[t][p].i = k}

C12_Record ==
    \A t \in Threads :
        /\ call[t].waited => pc[t] = "lock"
        /\ \A k \in 0 .. MaxSlots : Cardinality(LockEvents(t, k)) <= 1

C12_BlockingNoRetry == []C12_Record /\ [][C12_Step]_vars

C12_Witness ==
    \E t, u \in Threads :
        /\ t # u
        /\ pc[t] = "lock"
        /\ call[t].waited
        /\ pc[u] = "unlock"
        /\ call[u].s = call[t].s
        /\ ~poisoned[call[t].s]

Sending(t) == InCall(t) /\ call[t].kind = "send_to_all"

\* C13 as stated: under fair scheduling a send_to_all in progress eventually
\* returns, whoever holds the observers' locks, provided the locks held by
\* the other threads are eventually released for good.
C13_Original ==
    \A t \in Threads :
        <>[](\A u \in Threads \ {t} : guards[u] = {})
        => (Sending(t) ~> pc[t] = "done")

\* C13 amended: a send_to_all in progress eventually returns or is aborted by
\* a panic, provided that from some point on no user guard on an observer is
\* held by any thread, the caller included.
C13_Termination ==
    <>[](\A u \in Threads : guards[u] = {})
    => \A t \in Threads : Sending(t) ~> pc[t] \in {"done", "panicked"}

C13_Witness ==
    \E t, u \in Threads :
        /\ t # u
        /\ Returned(t, "send_to_all")
        /\ Returned(u, "send_to_all")
        /\ call[t].n = 2
        /\ Sub(t, 0) = Sub(t, 1)
        /\ call[t].acc = 2
        /\ call[u].acc >= 1
        /\ counter[Sub(t, 0)] = 3

\* the slots of the call of t at which o is registered
SlotsOf(t, o) == {k \in Slots(t) : Sub(t, k) = o}

\* C14: when two threads run send_to_all on the same Observable, every change
\* of an observer's state is one whole notify made by the only thread inside
\* its lock (counter + 1, output := that call's message), and once both calls
\* have returned each observer that is alive and unpoisoned has counted one
\* notification per registration per call (2 for a single registration) and
\* shows the message of one of the two calls.
C14_Step ==
    \A o \in Observers :
        (counter'[o] # counter[o] \/ output'[o] # output[o])
        => \E t \in Threads :
               /\ pc[t] = "notify" /\ pc'[t] = "unlock"
               /\ call[t].s = o
               /\ Inside(o) = {t} /\ UserInside(o) = {}
               /\ counter'[o] = counter[o] + 1
               /\ output'[o] = call[t].message

C14_Total ==
    (\A t \in Threads : Returned(t, "send_to_all"))
    => \A o \in Observers :
           Deliverable(o)
           => /\ counter[o] = Cardinality(SlotsOf("t1", o)) + Cardinality(SlotsOf("t2", o))
              /\ (counter[o] > 0) => output[o] \in {Message(t) : t \in {u \in Threads : SlotsOf(u, o) # {}}}

C14_NoLostUpdate == []C14_Total /\ [][C14_Step]_vars

\* both calls ranged over the same two observers and overtook one another
C14_Witness ==
    /\ \A t \in Threads : Returned(t, "send_to_all") /\ call[t].n = 2
    /\ subscribers["A"] = <<"o1", "o2">>
    /\ counter = [o \in Observers |-> 2]
    /\ output["o1"] = Message("t1")
    /\ output["o2"] = Message("t2")

\* the value a finished call returned, counted as a number of deliveries: the
\* total of send_to_all, 1 for Some(()) and 0 for None of send_to; a call that
\* was aborted by a panic returned nothing
Ret(t) ==
    IF pc[t] # "done" THEN 0
    ELSE IF call[t].kind = "send_to_all" THEN call[t].acc
    ELSE IF call[t].res = "Some" THEN 1 ELSE 0

NotifiedBy(t, o) == {p \in 1 .. Len(events[t]) : IsNotify(events[t][p]) /\ events[t][p].o = o}

RECURSIVE SumOver(_, _)
SumOver(f, S) ==
    IF S = {} THEN 0
    ELSE LET x == CHOOSE y \in S : TRUE IN f[x] + SumOver(f, S \ {x})

TotalReturned == SumOver([t \in Threads |-> Ret(t)], Threads)
TotalCounted == SumOver(counter, Observers)

\* C15 as stated: whenever no call is in progress, the return values of the
\* calls made add up to the number of notifications the observers counted.
C15_Original == (\A t \in Threads : ~InCall(t)) => TotalReturned = TotalCounted

\* C15 amended: an observer's counter is always the number of notifications
\* delivered to it, and its output is the message of the latest of them;
\* every call that returned reports exactly the deliveries it made, so the
\* return values add up to the counters once every call has returned. (A call
\* aborted by a panic returns nothing, and its deliveries stay counted.)
C15_Record ==
    /\ \A o \in Observers :
           /\ counter[o] = SumOver([t \in Threads |-> Cardinality(NotifiedBy(t, o))], Threads)
           /\ (counter[o] = 0) = (output[o] = 0)
    /\ \A t \in Threads : pc[t] = "done" => Ret(t) = Len(NotifyEvents(t))
    /\ (\A t \in Threads : pc[t] \in {"idle", "done"}) => TotalReturned = TotalCounted

C15_Step ==
    \A t \in Threads :
        LET new == events'[t][Len(events'[t])] IN
        (Len(events'[t]) > Len(events[t]) /\ IsNotify(new))
        => /\ counter'[new.o] = counter[new.o] + 1
           /\ output'[new.o] = new.m

C15_Accounting == []C15_Record /\ [][C15_Step]_vars

C15_Witness ==
    /\ Returned("t1", "send_to_all") /\ call["t1"].n = 2 /\ call["t1"].acc = 1
    /\ Returned("t2", "send_to") /\ call["t2"].res = "Some"
    /\ TotalCounted = 2
    /\ \E o \in Observers : counter[o] = 2 /\ output[o] = Message("t2")

\* C16: registration is not deduplicated. A send_to_all whose slots all hold
\* alive, unpoisoned observers returns the number of slots and has notified
\* each observer once per slot it occupies, whichever Observable the call was
\* made on; and a call never finds a lock held by its own earlier slot: a
\* mutex it waits for is held by another thread's delivery or a user guard.
C16_Counted ==
    \A t \in Threads :
        (Returned(t, "send_to_all") /\ \A k \in Slots(t) : Deliverable(Sub(t, k)))
        => /\ call[t].acc = call[t].n
           /\ \A o \in Observers :
                  Cardinality(NotifiedBy(t, o)) = Cardinality(SlotsOf(t, o))

C16_NoSelfBlock ==
    \A t \in Threads :
        (pc[t] = "lock" /\ mutex[call[t].s])
        => \/ \E u \in Threads \ {t} : HoldsGuard(u) /\ call[u].s = call[t].s
           \/ UserInside(call[t].s) # {}

C16_NoDedup == C16_Counted /\ C16_NoSelfBlock

C16_Witness ==
    /\ subscribers["A"] = <<"o1", "o1">>
    /\ subscribers["B"] = <<"o1">>
    /\ Returned("t1", "send_to_all") /\ call["t1"].ob = "A" /\ call["t1"].acc = 2
    /\ Returned("t2", "send_to_all") /\ call["t2"].ob = "B" /\ call["t2"].acc >= 1
    /\ Cardinality(NotifiedBy("t1", "o1")) = 2
    /\ Cardinality(NotifiedBy("t2", "o1")) = 1
    /\ counter["o1"] = 3

\* the slots of Observable ob whose observer has been destroyed
DeadSlots(ob) == {k \in 1 .. Len(subscribers[ob]) : subscribers[ob][k] \in dropped}

\* C17: a dead slot fails for good. Whatever is created, registered or sent
\* afterwards, a slot whose observer has been destroyed keeps its place and
\* its (destroyed) observer, which is never notified again; a send_to or a
\* send_to_all iteration that reaches it ends as a failure that is not
\* counted; and no call ever holds a handle on a destroyed observer.
C17_Step ==
    /\ \A ob \in Observables :
           \A k \in DeadSlots(ob) :
               /\ k \in DeadSlots(ob)'
               /\ subscribers'[ob][k] = subscribers[ob][k]
               /\ counter'[subscribers[ob][k]] = counter[subscribers[ob][k]]
               /\ output'[subscribers[ob][k]] = output[subscribers[ob][k]]
    /\ \A t \in Threads :
           (pc[t] = "upgrade" /\ call[t].s \in dropped /\ pc'[t] # pc[t])
           => /\ pc'[t] = AfterSlotPc(call[t], "None")
              /\ call'[t].res = "None"
              /\ call'[t].acc = call[t].acc

C17_Record ==
    /\ \A t \in Threads : HoldsArc(t) => call[t].s \notin dropped
    /\ \A o \in dropped : strong[o] = 0 /\ owners[o] = 0

C17_DeadForGood == []C17_Record /\ [][C17_Step]_vars

\* slot 0 is dead, the observer at slot 1 was created during the run; one
\* thread's send_to(_, 0) failed and the other's send_to_all counted slot 1
C17_Witness ==
    \E t, u \in Threads :
        /\ subscribers["A"] = <<"o1", "o2">>
        /\ "o1" \in dropped
        /\ Returned(t, "send_to") /\ call[t].i = 0 /\ call[t].res = "None"
        /\ events[t] = <<[e |-> "get", i |-> 0, o |-> "o1", m |-> Message(t)]>>
        /\ Returned(u, "send_to_all") /\ call[u].n = 2 /\ call[u].acc = 1
        /\ NotifiedBy(u, "o1") = {}
        /\ NotifiedBy(u, "o2") # {}

\* C18: notify only runs on an observer that exists. From the successful
\* upgrade until its handle is dropped a call's observer is not destroyed,
\* whatever the owner does with its handles; a locked mutex belongs to an
\* existing observer; a notify that completes is a success of the slot; and an
\* observer is destroyed only in a step that leaves its mutex released and
\* no delivery inside it.
C18_Alive ==
    /\ \A t \in Threads :
           HoldsArc(t) => /\ call[t].s \in Observers \ dropped
                          /\ strong[call[t].s] >= 1
    /\ \A o \in Observers : mutex[o] => o \notin dropped
    /\ \A t \in Threads : pc[t] = "unlock" => call[t].res = "Some"

C18_Step ==
    /\ \A o \in Observers :
           (o \notin dropped /\ o \in dropped')
           => /\ ~mutex'[o]
              /\ \A t \in Threads : ~(HoldsGuard(t)' /\ call'[t].s = o)
              /\ \A t \in Threads : pc[t] = "notify" /\ call[t].s = o => pc'[t] = "panicked"
    /\ \A t \in Threads :
           (pc[t] = "notify" /\ pc'[t] = "unlock")
           => /\ counter'[call[t].s] = counter[call[t].s] + 1
              /\ call'[t].res = "Some"
              /\ call[t].s \notin dropped'

C18_KeptAlive == []C18_Alive /\ [][C18_Step]_vars

\* the owner dropped its last handle, notify has completed and the lock is
\* still held: the observer exists only through the handle of the call
C18_Witness ==
    \E t \in Threads :
        /\ pc[t] = "unlock"
        /\ owners[call[t].s] = 0
        /\ strong[call[t].s] = 1
        /\ call[t].s \notin dropped
        /\ mutex[call[t].s]
        /\ counter[call[t].s] >= 1
        /\ output[call[t].s] = call[t].message

\* the call of t was aborted by a panic of notify (the lock had been taken)
NotifyPanicked(t) ==
    /\ pc[t] = "panicked"
    /\ events[t] # << >>
    /\ events[t][Len(events[t])].e = "lock"

DeliveredSlot(t, k) == \E p \in 1 .. Len(events[t]) : IsNotify(events[t][p]) /\ events[t][p].i = k

\* C19 as stated, for the deliveries to other observers: a send_to_all that
\* has ended, by returning or by a panic of a notify, has delivered to every
\* slot whose observer is alive and unpoisoned.
C19_Original ==
    \A t \in Threads :
        ((pc[t] = "done" \/ NotifyPanicked(t)) /\ call[t].kind = "send_to_all")
        => \A k \in Slots(t) : Deliverable(Sub(t, k)) => DeliveredSlot(t, k)

\* C19 amended: the step in which a notify panics releases the observer's lock
\* and poisons it, changes no observer's counter or output, and touches no
\* other thread and no other observer except those whose guard the panicking
\* thread's own code holds (released and poisoned too); a poisoned observer
\* stays poisoned and is never notified again; the panicking call is over: it
\* delivers to none of its remaining slots.
C19_Step ==
    /\ \A t \in Threads :
           (pc[t] = "notify" /\ pc'[t] = "panicked")
           => LET s == call[t].s IN
              /\ ~mutex'[s] /\ poisoned'[s]
              /\ UNCHANGED <<counter, output, subscribers>>
              /\ \A o \in Observers \ (guards[t] \cup {s}) :
                     mutex'[o] = mutex[o] /\ poisoned'[o] = poisoned[o]
              /\ \A o \in guards[t] : ~mutex'[o] /\ poisoned'[o]
              /\ \A u \in Threads \ {t} :
                     pc'[u] = pc[u] /\ call'[u] = call[u] /\ events'[u] = events[u]
    /\ \A o \in Observers :
           poisoned[o] => poisoned'[o] /\ counter'[o] = counter[o] /\ output'[o] = output[o]
    /\ \A t \in Threads :
           pc[t] = "panicked" => pc'[t] = "panicked" /\ events'[t] = events[t]

C19_Record ==
    \A t \in Threads :
        NotifyPanicked(t)
        => /\ poisoned[call[t].s]
           /\ \A u \in Threads : ~(HoldsGuard(u) /\ call[u].s = call[t].s /\ pc[u] # "err")

C19_PanicPoisons == []C19_Record /\ [][C19_Step]_vars

\* t's notify on o1 panicked; afterwards u's send_to_all took the lock of o1,
\* failed on it and delivered to o2
C19_Witness ==
    \E t, u \in Threads :
        /\ NotifyPanicked(t) /\ call[t].s = "o1"
        /\ ~mutex["o1"] /\ poisoned["o1"] /\ owners["o1"] >= 1
        /\ subscribers["A"] = <<"o1", "o2">>
        /\ Returned(u, "send_to_all") /\ call[u].acc = 1
        /\ LockEvents(u, 0) # {}
        /\ ~DeliveredSlot(u, 0)
        /\ DeliveredSlot(u, 1)
        /\ counter["o1"] = 0
====
